---- MODULE Spec2Model ----
(***************************************************************************)
(* The simulation core of src/snake.go: the body chain (node, head), the   *)
(* food, the globals grow / frame / points and the per-frame handler       *)
(* update, called by the run loop of main until it returns an error.       *)
(***************************************************************************)
EXTENDS Integers, Sequences, FiniteSets

\* ---------------------------------------------------------------- bounds
\* The configuration variables of src/snake.go (cellsX, cellsY, speed,
\* initialLength), scaled down so that wrap-around, growth and the interval
\* changes happen within a few frames.
cellsX == 4
cellsY == 2
speed == 3
\* Lengths main may pass to initSnake under SpecLengths.
MaxInitialLength == 3
\* Frames the run loop is followed for under Spec, SpecLengths, SpecIdle,
\* SpecPlay, SpecInputs and SpecConfig.
MaxFrame == 10
MaxLengthsFrame == 8
MaxIdleFrame == 3100
MaxPlayFrame == 12
MaxInputsFrame == 6
MaxConfigFrame == 6

\* ------------------------------------------------------- program constants
initialLength == 3
movePoints == 10
foodPoints == 1000
speedDivisor == 10000

Keys == {"Up", "Down", "Left", "Right"}

VARIABLES
    chain,          \* the linked nodes from h.node on: <<[x, y], ...>>, head first
    direction,      \* h.direction
    food,           \* f: [x, y]
    grow,           \* global grow
    frame,          \* global frame
    points,         \* global points
    ret,            \* what the last update call did: "nil", "errEnd", "errLose",
                    \* "panic" (integer divide by zero), "hang" (respawn never returns)
    initLen,        \* the length main passed to initSnake
    moved,          \* history: the last update call executed h.move
    ate,            \* history: the last update call executed the eat branch
    moveDir,        \* history: the direction the latest move used (-1: no move yet)
    moveFrame,      \* history: the frame of the latest move (0: no move yet)
    moveGrow,       \* history: grow as h.move left it in the last update call
    foodOwed,       \* history: the part of grow that a food consumption granted
    foodApplied,    \* history: the food-granted growth paid out of grow so far
    links,          \* the child and parent pointers of the nodes, by node in order
                    \* of allocation (node 1 is h.node): [child, parent], 0 is nil
    nilParentRead,  \* history: some n.step read n.parent of a node whose parent is nil
    pressed,        \* history: what the last update call read from the engine, in
                    \* the runs that record it (SpecInputs)
    old             \* history: the values before the last update call

vars == <<chain, direction, food, grow, frame, points, ret, initLen,
          moved, ate, moveDir, moveFrame, moveGrow, foodOwed, foodApplied,
          links, nilParentRead, pressed, old>>

Cell(x, y) == [x |-> x, y |-> y]

\* ------------------------------------------------------------ node / head

\* n.collided(x, y) for the node at index i
RECURSIVE collided(_, _, _)
collided(c, i, cell) ==
    IF c[i] = cell THEN TRUE
    ELSE IF i < Len(c) THEN collided(c, i + 1, cell)
    ELSE FALSE

\* step with the node taking its parent's cell before its child steps (a crawl)
RECURSIVE stepCrawl(_, _, _)
stepCrawl(c, i, g) ==
    LET c2 == [c EXCEPT ![i] = c[i - 1]]
    IN  IF i < Len(c) THEN stepCrawl(c2, i + 1, g)
        ELSE IF g > 0 THEN [chain |-> c2 \o [k \in 1..g |-> c2[i]], grow |-> 0]
        ELSE [chain |-> c2, grow |-> g]

\* step with the growth loop stopping one short (grow > 1 for grow > 0)
RECURSIVE stepAppendShort(_, _, _)
stepAppendShort(c, i, g) ==
    LET r  == IF i < Len(c) THEN stepAppendShort(c, i + 1, g) ELSE [chain |-> c, grow |-> g]
        c2 == [r.chain EXCEPT ![i] = r.chain[i - 1]]
    IN  IF i = Len(c) /\ r.grow > 0
        THEN [chain |-> c2 \o [k \in 1..(r.grow - 1) |-> c2[i]], grow |-> 1]
        ELSE [chain |-> c2, grow |-> r.grow]

\* step with an if in place of the growth loop: one node per move
RECURSIVE stepOnePerMove(_, _, _)
stepOnePerMove(c, i, g) ==
    LET r  == IF i < Len(c) THEN stepOnePerMove(c, i + 1, g) ELSE [chain |-> c, grow |-> g]
        c2 == [r.chain EXCEPT ![i] = r.chain[i - 1]]
    IN  IF i = Len(c) /\ r.grow > 0
        THEN [chain |-> Append(c2, c2[i]), grow |-> r.grow - 1]
        ELSE [chain |-> c2, grow |-> r.grow]

\* step appending at the cell the tail leaves (read before the tail is moved)
RECURSIVE stepAppendAtOldTail(_, _, _)
stepAppendAtOldTail(c, i, g) ==
    LET r  == IF i < Len(c) THEN stepAppendAtOldTail(c, i + 1, g)
              ELSE [chain |-> c, grow |-> g]
        c2 == [r.chain EXCEPT ![i] = r.chain[i - 1]]
    IN  IF i = Len(c) /\ r.grow > 0
        THEN [chain |-> c2 \o [k \in 1..r.grow |-> c[i]], grow |-> 0]
        ELSE [chain |-> c2, grow |-> r.grow]

\* step that unlinks the last node on a move with no growth owed
RECURSIVE stepDropTail(_, _, _)
stepDropTail(c, i, g) ==
    LET r  == IF i < Len(c) THEN stepDropTail(c, i + 1, g) ELSE [chain |-> c, grow |-> g]
        c2 == [r.chain EXCEPT ![i] = r.chain[i - 1]]
    IN  IF i = Len(c) /\ r.grow > 0
        THEN [chain |-> c2 \o [k \in 1..r.grow |-> c2[i]], grow |-> 0]
        ELSE IF i = Len(c)
        THEN [chain |-> SubSeq(c2, 1, i - 1), grow |-> r.grow]
        ELSE [chain |-> [k \in 1..Len(r.chain) |-> IF k = i THEN r.chain[i - 1] ELSE r.chain[k]],
              grow |-> r.grow]

\* n.step(w) for the node at index i >= 2: the child steps first, then the
\* node takes its parent's cell, then a childless node appends all owed nodes.
RECURSIVE step(_, _, _)
step(c, i, g) ==
    LET r  == IF i < Len(c) THEN step(c, i + 1, g) ELSE [chain |-> c, grow |-> g]
        c2 == [r.chain EXCEPT ![i] = r.chain[i - 1]]
    IN  IF i = Len(c) /\ r.grow > 0
        THEN [chain |-> c2 \o [k \in 1..r.grow |-> c2[i]], grow |-> 0]
        ELSE [chain |-> c2, grow |-> r.grow]

\* the switch of head.move
delta(d) ==
    CASE d % 4 = 0 -> Cell(1, 0)
      [] d % 4 = 1 -> Cell(0, 1)
      [] d % 4 = 2 -> Cell(-1, 0)
      [] d % 4 = 3 -> Cell(0, -1)

\* the four border tests of head.move, in order, on one coordinate
wrap(v, cells) ==
    LET v1 == IF v < 0 THEN cells ELSE v
    IN  IF v1 > cells THEN 0 ELSE v1

\* h.move(w, direction)
move(c, g, d) ==
    LET r == IF Len(c) > 1 THEN step(c, 2, g) ELSE [chain |-> c, grow |-> g]
        hd == Cell(wrap(c[1].x + delta(d).x, cellsX), wrap(c[1].y + delta(d).y, cellsY))
    IN  [chain |-> [r.chain EXCEPT ![1] = hd], grow |-> r.grow]

\* alive with collided not following the child links
aliveSecondOnly(c) == IF Len(c) = 1 THEN TRUE ELSE c[2] # c[1]

\* h.alive()
alive(c) == IF Len(c) = 1 THEN TRUE ELSE ~collided(c, 2, c[1])

\* the loop of initSnake, `for i := 1; i < initialLength; i++`, from counter i
\* on: each pass links a node one cell left of the last node (currNode) of c
RECURSIVE initNodes(_, _, _)
initNodes(c, i, n) ==
    IF i < n
    THEN initNodes(Append(c, Cell(c[Len(c)].x - 1, c[Len(c)].y)), i + 1, n)
    ELSE c

\* a loop that starts counting at 0
initSnakeFromZero(n) == initNodes(<<Cell(cellsX \div 2, cellsY \div 2)>>, 0, n)

\* initSnake(w, n): the head at the centre, then the loop
initSnake(n) == initNodes(<<Cell(cellsX \div 2, cellsY \div 2)>>, 1, n)

\* ----------------------------------------------------------------- links

\* &node{parent: p}: a new node, the next in order of allocation, without child
newNode(l, p) == [child |-> Append(l.child, 0), parent |-> Append(l.parent, p)]

\* the loop of initSnake on the pointers: node := &node{...};
\* currNode.child = node; node.parent = currNode; currNode = node
RECURSIVE initLinks(_, _, _, _)
initLinks(l, currNode, i, n) ==
    IF i < n
    THEN LET node == Len(l.child) + 1
             l1 == newNode(l, 0)
             l2 == [l1 EXCEPT !.child[currNode] = node]
             l3 == [l2 EXCEPT !.parent[node] = currNode]
         IN  initLinks(l3, node, i + 1, n)
    ELSE l

\* initSnake(w, n) on the pointers: the head node, then the loop
initSnakeLinks(n) == initLinks(newNode([child |-> <<>>, parent |-> <<>>], 0), 1, 1, n)

\* a growth loop that does not set the parent of the nodes it links
RECURSIVE growLinksNoParent(_, _, _)
growLinksNoParent(l, curr, g) ==
    IF g > 0
    THEN LET node == Len(l.child) + 1
         IN  growLinksNoParent([newNode(l, 0) EXCEPT !.child[curr] = node], node, g - 1)
    ELSE l

\* the growth loop of node.step on the pointers:
\* curr.child = &node{parent: curr, ...}; curr = curr.child
RECURSIVE growLinks(_, _, _)
growLinks(l, curr, g) ==
    IF g > 0
    THEN LET node == Len(l.child) + 1
         IN  growLinks([newNode(l, curr) EXCEPT !.child[curr] = node], node, g - 1)
    ELSE l

\* n.step(w) on the pointers: the child steps first, then n reads n.parent,
\* then a childless n runs the growth loop
RECURSIVE stepLinks(_, _, _)
stepLinks(l, n, g) ==
    LET r == IF l.child[n] # 0 THEN stepLinks(l, l.child[n], g)
             ELSE [links |-> l, grow |-> g, nilRead |-> FALSE]
        nilRead == r.nilRead \/ r.links.parent[n] = 0
    IN  IF r.links.child[n] = 0 /\ r.grow > 0
        THEN [links |-> growLinks(r.links, n, r.grow), grow |-> 0, nilRead |-> nilRead]
        ELSE [links |-> r.links, grow |-> r.grow, nilRead |-> nilRead]

\* h.move(w, direction) on the pointers: if h.child != nil { h.child.step(w) }
moveLinks(l, g) ==
    IF l.child[1] # 0 THEN stepLinks(l, l.child[1], g)
    ELSE [links |-> l, grow |-> g, nilRead |-> FALSE]

\* ------------------------------------------------------------------ food

\* respawn testing the head cell only
respawnHeadOnly(c) ==
    {cell \in {Cell(x, y) : x \in 0..(cellsX - 1), y \in 0..(cellsY - 1)} : cell # c[1]}

\* the cells food.respawn can leave its loop with
respawn(c) ==
    {cell \in {Cell(x, y) : x \in 0..(cellsX - 1), y \in 0..(cellsY - 1)} :
        ~collided(c, 1, cell)}

\* ---------------------------------------------------------------- update

\* key tests that take the pressed key whatever the current direction
keyDirectionNoGuard(d, keys) ==
    IF "Right" \in keys THEN 0
    ELSE IF "Left" \in keys THEN 2
    ELSE IF "Down" \in keys THEN 1
    ELSE IF "Up" \in keys THEN 3 ELSE d

\* the four key tests of update, in order
keyDirection(d, keys) ==
    LET d1 == IF "Up" \in keys /\ d % 4 # 1 THEN 3 ELSE d
        d2 == IF "Down" \in keys /\ d1 % 4 # 3 THEN 1 ELSE d1
        d3 == IF "Left" \in keys /\ d2 % 4 # 0 THEN 2 ELSE d2
    IN  IF "Right" \in keys /\ d3 % 4 # 2 THEN 0 ELSE d3

\* int64(speed - float64(points)/10000.0): the conversion truncates toward zero
currSpeed(p) ==
    LET num == speed * speedDivisor - p
    IN  IF num >= 0 THEN num \div speedDivisor ELSE -((-num) \div speedDivisor)

\* a gate that lets the snake move on every frame
gateEveryFrame(fr, iv) == TRUE

\* frame % int64(currSpeed) == 0, for a divisor other than 0
gate(fr, iv) == fr % (IF iv < 0 THEN -iv ELSE iv) = 0

\* int(math.Log10(float64(p))), as the exact floor of the decimal logarithm
RECURSIVE log10(_)
log10(p) == IF p < 10 THEN 0 ELSE 1 + log10(p \div 10)

Snapshot == [chain |-> chain, grow |-> grow, points |-> points,
             direction |-> direction, food |-> food,
             moveDir |-> moveDir, moveFrame |-> moveFrame]

\* One call of update(screen). slow: ebiten.IsRunningSlowly(); esc: Escape is
\* pressed; keys: the direction keys pressed.
Update(slow, esc, keys) ==
    LET d  == keyDirection(direction, keys)
        iv == currSpeed(points)
        gated == gate(frame + 1, iv)
        m  == IF gated THEN move(chain, grow, d) ELSE [chain |-> chain, grow |-> grow]
        lost == gated /\ ~alive(m.chain)
        p1 == IF gated THEN points + movePoints ELSE points
        eat == m.chain[1] = food
        free == respawn(m.chain)
        \* of the food-granted units owed, those this move took out of grow
        paid == IF foodOwed > m.grow THEN foodOwed - m.grow ELSE 0
        \* h.move is reached and runs
        ml == IF ~slow /\ ~esc /\ iv # 0 /\ gated THEN moveLinks(links, grow)
              ELSE [links |-> links, grow |-> grow, nilRead |-> FALSE]
    IN  /\ frame' = frame + 1
        /\ links' = ml.links
        /\ nilParentRead' = (nilParentRead \/ ml.nilRead)
        /\ old' = Snapshot
        /\ UNCHANGED initLen
        /\ IF slow THEN
               /\ ret' = "nil" /\ moved' = FALSE /\ ate' = FALSE
               /\ moveGrow' = grow
               /\ UNCHANGED <<chain, direction, food, grow, points, moveDir, moveFrame,
                              foodOwed, foodApplied>>
           ELSE IF esc THEN
               /\ ret' = "errEnd" /\ moved' = FALSE /\ ate' = FALSE
               /\ moveGrow' = grow
               /\ UNCHANGED <<chain, direction, food, grow, points, moveDir, moveFrame,
                              foodOwed, foodApplied>>
           ELSE IF iv = 0 THEN
               /\ ret' = "panic" /\ moved' = FALSE /\ ate' = FALSE
               /\ direction' = d
               /\ moveGrow' = grow
               /\ UNCHANGED <<chain, food, grow, points, moveDir, moveFrame,
                              foodOwed, foodApplied>>
           ELSE
               /\ direction' = d
               /\ moved' = gated
               /\ moveDir' = IF gated THEN d ELSE moveDir
               /\ moveFrame' = IF gated THEN frame + 1 ELSE moveFrame
               /\ chain' = m.chain
               /\ moveGrow' = m.grow
               /\ foodApplied' = foodApplied + paid
               /\ IF lost THEN
                      /\ ret' = "errLose" /\ ate' = FALSE
                      /\ grow' = m.grow /\ foodOwed' = foodOwed - paid
                      /\ UNCHANGED <<food, points>>
                  ELSE IF ~eat THEN
                      /\ ret' = "nil" /\ ate' = FALSE
                      /\ grow' = m.grow /\ points' = p1
                      /\ foodOwed' = foodOwed - paid
                      /\ UNCHANGED food
                  ELSE
                      /\ ate' = TRUE
                      /\ points' = p1 + foodPoints
                      /\ grow' = log10(p1 + foodPoints)
                      /\ foodOwed' = log10(p1 + foodPoints)
                      /\ IF free = {}
                         THEN ret' = "hang" /\ UNCHANGED food
                         ELSE ret' = "nil" /\ food' \in free

\* no key pressed, the engine not running slowly
NoInput == [slow |-> FALSE, esc |-> FALSE, keys |-> {}]

\* main after initSnake(w, n) and the first respawn; the globals' initial values
InitWith(n) ==
    /\ initLen = n
    /\ chain = initSnake(initLen)
    /\ direction = 0
    /\ food \in respawn(chain)
    /\ grow = 1
    /\ frame = 0
    /\ points = 0
    /\ ret = "nil"
    /\ moved = FALSE
    /\ ate = FALSE
    /\ moveDir = -1
    /\ moveFrame = 0
    /\ moveGrow = 1
    /\ foodOwed = 0
    /\ foodApplied = 0
    /\ links = initSnakeLinks(initLen)
    /\ nilParentRead = FALSE
    /\ pressed = NoInput
    /\ old = Snapshot

Init == InitWith(initialLength)

\* What one call of update reads from the engine: the slow-running flag, then
\* Escape, then the direction keys (not read on a frame that returned before).
Inputs ==
    {in \in [slow : BOOLEAN, esc : BOOLEAN, keys : SUBSET Keys] :
        (in.slow => ~in.esc) /\ (in.slow \/ in.esc => in.keys = {})}

\* a run loop that keeps calling update after it returned an error
NextIgnoringError ==
    /\ ret \in {"nil", "errEnd", "errLose"}
    /\ frame < MaxFrame
    /\ \E in \in Inputs : Update(in.slow, in.esc, in.keys)
    /\ UNCHANGED pressed

\* ebiten.Run calls update once per frame until it returns an error
Next ==
    /\ ret = "nil"
    /\ frame < MaxFrame
    /\ \E in \in Inputs : Update(in.slow, in.esc, in.keys)
    /\ UNCHANGED pressed

Spec == Init /\ [][Next]_vars

\* The program started with any initial length whose cells initSnake places
\* inside the grid.
InitLengths ==
    \E n \in 1..MaxInitialLength : (cellsX \div 2) - (n - 1) >= 0 /\ InitWith(n)

NextLengths ==
    /\ ret = "nil"
    /\ frame < MaxLengthsFrame
    /\ \E in \in Inputs : Update(in.slow, in.esc, in.keys)
    /\ UNCHANGED pressed

SpecLengths == InitLengths /\ [][NextLengths]_vars

\* The runs in which the player presses at most one direction key per frame,
\* never Escape, and the engine never skips.
NextPlay ==
    /\ ret = "nil"
    /\ frame < MaxPlayFrame
    /\ \E in \in Inputs :
          ~in.slow /\ ~in.esc /\ Cardinality(in.keys) <= 1 /\ Update(in.slow, in.esc, in.keys)
    /\ UNCHANGED pressed

SpecPlay == Init /\ [][NextPlay]_vars

\* The program started with any initial length, positive or not, whose cells
\* initSnake places inside the grid.
InitConfig ==
    \E n \in -1..MaxInitialLength : (cellsX \div 2) - (n - 1) >= 0 /\ InitWith(n)

NextConfig ==
    /\ ret = "nil"
    /\ frame < MaxConfigFrame
    /\ \E in \in Inputs : Update(in.slow, in.esc, in.keys)
    /\ UNCHANGED pressed

SpecConfig == InitConfig /\ [][NextConfig]_vars

\* The run in which the player never presses a key and the engine never skips.
NextIdle ==
    /\ ret = "nil"
    /\ frame < MaxIdleFrame
    /\ Update(FALSE, FALSE, {})
    /\ UNCHANGED pressed

SpecIdle == Init /\ [][NextIdle]_vars

\* The runs under every combination of the slow-running flag, Escape and the
\* direction keys, with what each update read kept in pressed.
AllInputs == [slow : BOOLEAN, esc : BOOLEAN, keys : SUBSET Keys]

\* an update that never tests the slow-running flag
NextInputsNoSkip ==
    /\ ret = "nil"
    /\ frame < MaxInputsFrame
    /\ \E in \in AllInputs : Update(FALSE, in.esc, in.keys) /\ pressed' = in

\* an update that never tests Escape
NextInputsNoEscape ==
    /\ ret = "nil"
    /\ frame < MaxInputsFrame
    /\ \E in \in AllInputs : Update(in.slow, FALSE, in.keys) /\ pressed' = in

NextInputs ==
    /\ ret = "nil"
    /\ frame < MaxInputsFrame
    /\ \E in \in AllInputs : Update(in.slow, in.esc, in.keys) /\ pressed' = in

SpecInputs == Init /\ [][NextInputs]_vars

\* ---------------------------------------------------------------- claims

InGrid(cell) == cell.x \in 0..(cellsX - 1) /\ cell.y \in 0..(cellsY - 1)

\* the head collides with a chain element at index >= 1 (0-based)
HeadOnBody(c) == \E i \in 2..Len(c) : c[i] = c[1]

\* C1: a move from a head cell inside the grid puts the head on
\* ((x+dx) mod cellsX, (y+dy) mod cellsY) for the unit vector of the direction.
C1_MoveWrapsToroidally ==
    (moved /\ InGrid(old.chain[1])) =>
        chain[1] = Cell((old.chain[1].x + delta(moveDir).x + cellsX) % cellsX,
                        (old.chain[1].y + delta(moveDir).y + cellsY) % cellsY)

\* C2: in every reachable state every cell of the chain, head included, lies in
\* [0, cellsX) x [0, cellsY).
C2_CellsInGrid == \A i \in 1..Len(chain) : InGrid(chain[i])

\* C3: the gating interval computed from a reachable score is at least 1.
C3_IntervalAtLeastOne == (ret = "nil") => currSpeed(points) >= 1

\* C4: while the chain has more than one cell, the direction a move uses is never
\* the exact opposite of the direction the previous move used.
C4_NoReversalBetweenMoves ==
    (moved /\ old.moveDir # -1 /\ Len(old.chain) > 1) =>
        moveDir # (old.moveDir + 2) % 4

\* C5: update returns errLose on a tick exactly when that tick moved and the head
\* then lies on a chain element at index >= 1 (appended segments included).
C5_LoseIffCollision == (ret = "errLose") <=> (moved /\ HeadOnBody(chain))

C5_Witness == ret = "errLose" /\ moved /\ HeadOnBody(chain) /\ Len(chain) > Len(old.chain)

\* C6: initially and after every update that returns nil, the food cell differs
\* from every cell of the chain.
C6_FoodNotOnBody == (ret = "nil") => \A i \in 1..Len(chain) : chain[i] # food

C6_Witness == ret = "nil" /\ ate /\ Len(chain) >= 3 /\ food # old.food

\* C7: two consecutive moves are at least interval frames apart, the interval
\* being the one derived from the score at the later move.
C7_MinGapBetweenMoves ==
    (moved /\ old.moveFrame > 0) =>
        moveFrame - old.moveFrame >= currSpeed(old.points)

\* C8: on every move each cell that was at index i >= 1 ends at the cell that
\* index i-1 held before the move, with or without growth in that move.
C8_SimultaneousShift ==
    moved => \A i \in 2..Len(old.chain) : chain[i] = old.chain[i - 1]

C8_Witness ==
    /\ moved
    /\ Len(old.chain) >= 3
    /\ Len(chain) > Len(old.chain)
    /\ \A i, j \in 1..Len(old.chain) : i # j => old.chain[i] # old.chain[j]

\* C9 (as stated): after every move the chain length is initialLength plus the
\* food-granted growth applied so far.
C9_LengthIsInitialPlusFood == moved => Len(chain) = initLen + foodApplied

\* C9 (amended): after every move the chain length is initialLength plus the
\* growth applied so far, which is the initial pending growth of 1 (grow starts at
\* 1 and the first move of a chain of two or more cells pays it) plus the
\* food-granted growth applied; a head-only chain never applies growth.
C9_LengthIsInitialPlusApplied ==
    moved => Len(chain) = initLen + (IF initLen >= 2 THEN 1 ELSE 0) + foodApplied

C9_Witness == moved /\ foodApplied > 0 /\ Len(chain) = initLen + 1 + foodApplied

Appended == (Len(old.chain) + 1)..Len(chain)

\* C11 (as stated): a cell appended by a move lies at the cell the tail held
\* before that move and shares its cell with no other chain cell.
C11_AppendedAtVacatedCell ==
    moved =>
        \A i \in Appended :
            /\ chain[i] = old.chain[Len(old.chain)]
            /\ \A j \in 1..Len(chain) : j # i => chain[j] # chain[i]

\* C11 (amended): the cells appended by a move lie at the cell the tail holds
\* after that move, which is the pre-move cell of the tail's predecessor, so an
\* appended cell shares its cell with the tail.
C11_AppendedAtTailCell ==
    moved =>
        \A i \in Appended :
            /\ chain[i] = chain[Len(old.chain)]
            /\ chain[i] = old.chain[Len(old.chain) - 1]

C11_Witness ==
    /\ moved
    /\ Len(chain) >= Len(old.chain) + 2
    /\ old.chain[Len(old.chain)] # old.chain[Len(old.chain) - 1]

C13_RespawnTerminates == ret # "hang"

\* the tick's move put the head on the food cell without self-collision
Consumed == moved /\ chain[1] = old.food /\ ~HeadOnBody(chain)

C15_ScoreSteps ==
    /\ points >= 0
    /\ points >= old.points
    /\ points - old.points =
          (IF moved /\ ~HeadOnBody(chain) THEN movePoints ELSE 0)
        + (IF Consumed THEN foodPoints ELSE 0)
    /\ (ret = "errLose" \/ ~moved) => points = old.points

C15_Witness == Consumed /\ old.points > 0 /\ ret = "nil"

\* the update just made was called with a frame number the interval does not
\* divide
NotGated ==
    LET iv == currSpeed(old.points)
    IN  frame > 0 /\ iv > 0 /\ frame % iv # 0

\* C16: on every tick on which frame % interval # 0 the chain (length and
\* every cell), the food cell, the score and pending growth are unchanged; only
\* the frame counter and possibly the direction change.
C16_NonGatedTickChangesNothing ==
    NotGated =>
        /\ chain = old.chain
        /\ food = old.food
        /\ points = old.points
        /\ grow = old.grow
        /\ ~moved

C16_Witness == NotGated /\ ret = "nil" /\ direction # old.direction /\ points > 0

\* the key update maps to direction d: 0 Right, 1 Down, 2 Left, 3 Up
KeyOf(d) == IF d = 0 THEN "Right" ELSE IF d = 1 THEN "Down" ELSE IF d = 2 THEN "Left" ELSE "Up"

\* the last update read exactly one direction key, the one opposite to the
\* direction the head had when it was called
OnlyOppositePressed ==
    frame > 0 /\ pressed.keys = {KeyOf((old.direction + 2) % 4)}

\* C17: an update in which the only direction key pressed is the exact opposite
\* of h.direction leaves h.direction unchanged, and a move made by that update
\* uses the unchanged direction; this for each of the four directions.
C17_OppositeKeyIgnored ==
    OnlyOppositePressed =>
        /\ direction = old.direction
        /\ moved => moveDir = old.direction

C17_Witness ==
    /\ OnlyOppositePressed /\ ~pressed.slow /\ ~pressed.esc
    /\ old.direction = 3 /\ moved /\ ret = "nil"

\* the last update was called with Escape pressed
EscapePressed == frame > 0 /\ pressed.esc

\* C18: every update call during which Escape is pressed returns errEnd and
\* performs no move, whatever the frame number, the slow-running flag and the
\* collision outcome.
C18_EscapeAlwaysEnds == EscapePressed => (ret = "errEnd" /\ ~moved)

\* C18, as the code has it: an update call during which Escape is pressed
\* performs no move and changes nothing but the frame counter; it returns errEnd
\* when the engine is not running slowly and nil, the session going on, when it
\* is.
C18_EscapeEndsUnlessSlow ==
    EscapePressed =>
        /\ ~moved
        /\ chain = old.chain /\ direction = old.direction /\ food = old.food
        /\ points = old.points /\ grow = old.grow
        /\ ret = IF pressed.slow THEN "nil" ELSE "errEnd"

C18_Witness ==
    /\ EscapePressed /\ ~pressed.slow /\ ret = "errEnd"
    /\ frame % currSpeed(old.points) = 0
    /\ pressed.keys = {"Up"} /\ old.direction = 0

\* C20: initSnake(w, n) with n >= 1 builds exactly n cells, the head at
\* (cellsX/2, cellsY/2) and the cell at index i (the head being index 0) at
\* (cellsX/2 - i, cellsY/2), consecutive cells grid-adjacent and all cells
\* pairwise distinct.
C20_InitialChain ==
    (frame = 0 /\ initLen >= 1) =>
        /\ Len(chain) = initLen
        /\ chain[1] = Cell(cellsX \div 2, cellsY \div 2)
        /\ \A i \in 1..Len(chain) : chain[i] = Cell((cellsX \div 2) - (i - 1), cellsY \div 2)
        /\ \A i \in 1..(Len(chain) - 1) :
              chain[i + 1].y = chain[i].y /\ chain[i + 1].x = chain[i].x - 1
        /\ \A i, j \in 1..Len(chain) : i # j => chain[i] # chain[j]

C20_Witness == frame = 0 /\ initLen = initialLength /\ Len(chain) = initialLength

\* C19: construction with a non-positive initial length is rejected and no
\* session is created: it never yields a session that is played, that is, one
\* whose update calls return nil and move a snake.
C19_NonPositiveLengthRejected == initLen < 1 => ~(ret = "nil" /\ moved)

\* C21: the chain never gets shorter: after every update call it has at least
\* as many cells as before the call, and it always has at least one cell.
C21_LengthNeverDecreases ==
    /\ Len(chain) >= Len(old.chain)
    /\ Len(chain) >= 1

C21_Witness == moved /\ ate /\ old.grow = 0 /\ Len(chain) = Len(old.chain) /\ Len(chain) > initLen

\* the last update was called while the engine reported running slowly
SlowFrame == frame > 0 /\ pressed.slow

\* C22: an update made while the engine runs slowly returns nil and changes
\* nothing but the frame counter, whatever keys are pressed (no direction
\* change, no Escape, no move, no consumption, same score); and a move is only
\* ever made on a frame the interval divides, so a move dropped by a skipped
\* frame is not made up on the next call.
C22_FrameSkip ==
    /\ SlowFrame =>
          /\ ret = "nil" /\ ~moved /\ ~ate
          /\ chain = old.chain /\ direction = old.direction /\ food = old.food
          /\ points = old.points /\ grow = old.grow
    /\ moved => (~pressed.slow /\ frame % currSpeed(old.points) = 0)

C22_Witness ==
    /\ SlowFrame /\ pressed.esc /\ pressed.keys = {"Up"} /\ old.direction = 0
    /\ frame % currSpeed(old.points) = 0

\* the last update moved a snake to which a food consumption owed growth
MoveAfterGrant == moved /\ old.grow > 0 /\ old.points >= foodPoints

\* C23: for every initial length >= 1, the head-only chain included, the move
\* that follows a food consumption granting g > 0 makes the chain g cells
\* longer.
C23_GrantedGrowthApplied == MoveAfterGrant => Len(chain) = Len(old.chain) + old.grow

\* C24: while the chain has two or more cells grow is 0 after every move, so
\* it is 0 when a consumption assigns grow = floor(log10(points)) and no owed
\* segment is overwritten; grow is never negative.
C24_NothingOwedAtConsumption ==
    /\ grow >= 0
    /\ ate => moved
    /\ (moved /\ Len(old.chain) >= 2) =>
          /\ moveGrow = 0
          /\ ~ate => grow = 0

C24_Witness == ate /\ Len(old.chain) >= 2 /\ old.points >= foodPoints /\ old.grow = 0 /\ grow >= 3

\* the number of nodes met from node n on along the child pointers, counting
\* at most fuel of them (fuel + 1: the walk did not end)
RECURSIVE Walk(_, _, _)
Walk(l, n, fuel) ==
    IF n = 0 THEN 0
    ELSE IF fuel = 0 THEN 1
    ELSE 1 + Walk(l, l.child[n], fuel - 1)

\* C25: in every reachable state the head node has no parent, every other
\* node n has a parent with n.parent.child = n, the walk from the head along
\* the child pointers ends and meets every node once (one node per cell of
\* the chain), and no n.step has read the parent of a node without one.
C25_WellFormedLinks ==
    LET N == Len(links.child)
    IN  /\ N = Len(chain) /\ Len(links.parent) = N
        /\ links.parent[1] = 0
        /\ \A n \in 2..N :
              links.parent[n] \in 1..N /\ links.child[links.parent[n]] = n
        /\ Walk(links, 1, N) = N
        /\ ~nilParentRead

C25_Witness == moved /\ Len(old.chain) > initLen /\ Len(chain) > Len(old.chain)

====
